---- MODULE Spec2Model ----
(***************************************************************************)
(* Pedersen VRF verification over Bandersnatch                             *)
(* (src/src/verifier/pedersen.ts, class PedersenVRFVerifier).              *)
(*                                                                         *)
(* The curve's prime-order subgroup is modelled as the cyclic group of     *)
(* prime order Order: a point is its discrete logarithm to the generator   *)
(* G, so addition is addition modulo Order and scalar multiplication is    *)
(* multiplication modulo Order.  Byte strings keep their real widths: a    *)
(* proof is 160 bytes, a point or a scalar is a 32-byte field.             *)
(***************************************************************************)
EXTENDS Integers, Sequences, FiniteSets, TLC

\* ------------------------------------------------------------------ sizes
ProofSize == 160

FieldSize == 32

\* ------------------------------------------------------- model bounds
\* bytes a message may carry (messages are <<>> and <<1>> .. <<MaxMsgByte>>)
MaxMsgByte == 2

\* bytes an auxData argument may carry
MaxAuxByte == 1

\* how far above the curve order a forged response scalar may lie
MaxWrap == 1

\* how far a malformed proof's length may lie from 0 and from ProofSize
MaxLenDelta == 1

\* ------------------------------------------------- curve parameters
\* BANDERSNATCH_PARAMS.CURVE_ORDER, scaled to a small prime
Order == 3

\* BANDERSNATCH_PARAMS.GENERATOR
Generator == 1

\* BANDERSNATCH_PARAMS.BLINDING_BASE: a second base, different from G
BlindingBase == 2

Points == 0 .. (Order - 1)

Identity == 0

\* an optional byte-string argument: omitted, or given with its bytes
Undefined == [given |-> FALSE, bytes |-> <<>>]

Given(bytes) == [given |-> TRUE, bytes |-> bytes]

\* ------------------------------------------------------ byte helpers
RECURSIVE LEBytes(_, _)
\* n as len bytes, least significant first
LEBytes(n, len) ==
    IF len = 0 THEN <<>> ELSE <<n % 256>> \o LEBytes(n \div 256, len - 1)

RECURSIVE LEValueFrom(_, _)
LEValueFrom(bytes, i) ==
    IF i > Len(bytes) THEN 0
    ELSE bytes[i] + 256 * LEValueFrom(bytes, i + 1)

\* crypto/elligator2: bytesToBigIntLittleEndian (no range check, no reduction)
bytesToBigIntLittleEndian(bytes) == LEValueFrom(bytes, 1)

\* ------------------------------------------------ curve adapter
\* y-coordinate style code of a point; the identity (0, 1) has code 1
PointCode(P) == 2 * P + 1

\* BandersnatchCurve.pointToBytes: canonical compressed 32-byte encoding
pointToBytes(P) == LEBytes(PointCode(P), FieldSize)

\* the 32-byte strings that decode to a point of the subgroup
Decodable(bytes) == \E P \in Points : pointToBytes(P) = bytes

\* BandersnatchCurve.bytesToPoint (defined where Decodable; throws elsewhere)
bytesToPoint(bytes) == CHOOSE P \in Points : pointToBytes(P) = bytes

\* BandersnatchCurve.scalarMultiply: scalar * P in the group of order Order
scalarMultiply(P, scalar) == (P * scalar) % Order

\* BandersnatchCurve.add
add(P, Q) == (P + Q) % Order

\* ------------------------------------------------ hash functions
HashMod == 251

HashMul == 31

RECURSIVE HashPow(_)
\* HashMul^n modulo HashMod
HashPow(n) ==
    IF n = 0 THEN 1
    ELSE LET h == HashPow(n \div 2)
         IN  (h * h * (IF n % 2 = 1 THEN HashMul ELSE 1)) % HashMod

RECURSIVE HashPoly(_, _, _)
\* sum of (bytes[i] + 1) * HashMul^(hi - i) over i in lo .. hi, modulo HashMod
HashPoly(bytes, lo, hi) ==
    IF lo > hi THEN 0
    ELSE IF lo = hi THEN (bytes[lo] + 1) % HashMod
    ELSE LET mid == (lo + hi) \div 2
         IN  (HashPoly(bytes, lo, mid) * HashPow(hi - mid)
                + HashPoly(bytes, mid + 1, hi)) % HashMod

DomainSeparator == 7

\* a length- and order-sensitive digest of a byte string: starting from the
\* domain separator, h := h * HashMul + byte + 1 (mod HashMod) for each byte
HashBytes(bytes) ==
    (DomainSeparator * HashPow(Len(bytes)) + HashPoly(bytes, 1, Len(bytes)))
        % HashMod

\* crypto/elligator2: elligator2HashToCurve, total and deterministic
elligator2HashToCurve(message) == HashBytes(message) % Order

\* PedersenVRFProver.generateChallenge: hash of the encoded points in the
\* given order followed by auxData, reduced modulo the curve order
generateChallenge(Y_bar, I, O, R, O_k, aux) ==
    HashBytes(Y_bar \o I \o O \o R \o O_k \o aux) % Order

\* ------------------------------------------------ proof codec
Field(bytes, k) == SubSeq(bytes, (k - 1) * FieldSize + 1, k * FieldSize)

\* PedersenVRFProver.deserialize: five 32-byte fields, in order
deserialize(proof) ==
    [Y_bar |-> Field(proof, 1), R |-> Field(proof, 2), O_k |-> Field(proof, 3),
     s |-> Field(proof, 4), s_b |-> Field(proof, 5)]

\* PedersenVRFProver.serialize
serialize(p) == p.Y_bar \o p.R \o p.O_k \o p.s \o p.s_b

\* ------------------------------------------------ the verifier
\* hashToCurve (H1): the hashed point, compressed
hashToCurve(message) == pointToBytes(elligator2HashToCurve(message))

\* getBlindingBase copied from the generator without changing the point
getBlindingBase_Generator == Generator

\* getBlindingBase: the blinding base B as a point
getBlindingBase == BlindingBase

\* the length check as a lower bound only
LengthOk_AtLeast(proof) == Len(proof) >= ProofSize

\* verify, line 35: the proof has the 160 bytes of a Pedersen proof
LengthOk(proof) == Len(proof) = ProofSize

\* an omitted auxData replaced by one zero byte instead of no bytes
AuxOrEmpty_ZeroByte(auxData) == IF auxData.given THEN auxData.bytes ELSE <<0>>

\* the auxData argument dropped from the challenge
AuxOrEmpty_Ignored(auxData) == <<>>

\* verifyProof, line 118: auxData || new Uint8Array(0)
AuxOrEmpty(auxData) == IF auxData.given THEN auxData.bytes ELSE <<>>

\* verifyProof, lines 102-106: the five bytesToPoint calls all return
PointsDecode(I, O, proof) ==
    /\ Decodable(I)
    /\ Decodable(O)
    /\ Decodable(proof.Y_bar)
    /\ Decodable(proof.R)
    /\ Decodable(proof.O_k)

\* verifyProof, lines 122-125: theta0, O_k + c.O = I.s
Theta0(IPoint, OPoint, O_kPoint, sScalar, c) ==
    LET cO == scalarMultiply(OPoint, c)
        leftSide == add(O_kPoint, cO)
        rightSide == scalarMultiply(IPoint, sScalar)
    IN  leftSide = rightSide

\* s_b multiplied onto the generator instead of the blinding base
RightSideKey_SameBase(sScalar, s_bScalar) ==
    add(scalarMultiply(Generator, sScalar),
        scalarMultiply(Generator, s_bScalar))

\* verifyProof, lines 136-138: s.G + s_b.B
RightSideKey(sScalar, s_bScalar) ==
    LET G == Generator
        B == getBlindingBase
        sG == scalarMultiply(G, sScalar)
        s_bB == scalarMultiply(B, s_bScalar)
    IN  add(sG, s_bB)

\* verifyProof, lines 128-139: theta1, R + c.Y_bar = s.G + s_b.B
Theta1(Y_barPoint, RPoint, sScalar, s_bScalar, c) ==
    LET cY_bar == scalarMultiply(Y_barPoint, c)
        leftSideKey == add(RPoint, cY_bar)
    IN  leftSideKey = RightSideKey(sScalar, s_bScalar)

\* the result taken from theta0 alone
IsValid_OnlyTheta0(theta0, theta1) == theta0

\* verifyProof, line 142
IsValid(theta0, theta1) == theta0 /\ theta1

\* verifyProof: the returned boolean, the steps it executed, and the values
\* it logs.  A throw of bytesToPoint lands in the catch, which returns false.
verifyProof(I, O, proof, auxData) ==
    IF ~PointsDecode(I, O, proof)
    THEN [value |-> FALSE, steps |-> <<"bytesToPoint">>,
          theta0 |-> FALSE, theta1 |-> FALSE, c |-> 0]
    ELSE LET IPoint == bytesToPoint(I)
             OPoint == bytesToPoint(O)
             Y_barPoint == bytesToPoint(proof.Y_bar)
             RPoint == bytesToPoint(proof.R)
             O_kPoint == bytesToPoint(proof.O_k)
             sScalar == bytesToBigIntLittleEndian(proof.s)
             s_bScalar == bytesToBigIntLittleEndian(proof.s_b)
             c == generateChallenge(proof.Y_bar, I, O, proof.R, proof.O_k,
                                    AuxOrEmpty(auxData))
             theta0 == Theta0(IPoint, OPoint, O_kPoint, sScalar, c)
             theta1 == Theta1(Y_barPoint, RPoint, sScalar, s_bScalar, c)
         IN  [value |-> IsValid(theta0, theta1),
              steps |-> <<"bytesToPoint", "generateChallenge",
                          "theta0", "theta1">>,
              theta0 |-> theta0, theta1 |-> theta1, c |-> c]

\* verify: "error" is the thrown Error, "true" and "false" the returned boolean
verify(input, gamma, proof, auxData) ==
    IF ~LengthOk(proof)
    THEN [result |-> "error", steps |-> <<>>,
          theta0 |-> FALSE, theta1 |-> FALSE, c |-> 0]
    ELSE LET pedersenProof == deserialize(proof)
             I == hashToCurve(input)
             r == verifyProof(I, gamma, pedersenProof, auxData)
         IN  [result |-> IF r.value THEN "true" ELSE "false",
              steps |-> <<"deserialize", "hashToCurve">> \o r.steps,
              theta0 |-> r.theta0, theta1 |-> r.theta1, c |-> r.c]

\* ------------------------------------------------ the prover (spec 4.5)
\* PedersenVRFProver.prove with blinding b and nonces k, k_b
prove(secretKey, b, k, k_b, input, auxData) ==
    LET IPoint == elligator2HashToCurve(input)
        Gamma == scalarMultiply(IPoint, secretKey)
        publicKey == scalarMultiply(Generator, secretKey)
        Y_bar == add(publicKey, scalarMultiply(BlindingBase, b))
        R == add(scalarMultiply(Generator, k), scalarMultiply(BlindingBase, k_b))
        O_k == scalarMultiply(IPoint, k)
        c == generateChallenge(pointToBytes(Y_bar), pointToBytes(IPoint),
                               pointToBytes(Gamma), pointToBytes(R),
                               pointToBytes(O_k), AuxOrEmpty(auxData))
        s == (k + c * secretKey) % Order
        s_b == (k_b + c * b) % Order
    IN  [gamma |-> pointToBytes(Gamma),
         proof |-> serialize([Y_bar |-> pointToBytes(Y_bar),
                              R |-> pointToBytes(R),
                              O_k |-> pointToBytes(O_k),
                              s |-> LEBytes(s, FieldSize),
                              s_b |-> LEBytes(s_b, FieldSize)])]

\* ------------------------------------------------ call arguments
Messages == {<<>>} \cup {<<m>> : m \in 1 .. MaxMsgByte}

AuxArgs == {Undefined, Given(<<>>)} \cup {Given(<<a>>) : a \in 1 .. MaxAuxByte}

Scalars == 0 .. (Order - 1)

\* response scalars a forger may encode: reduced ones and a few above Order
WideScalars == 0 .. (Order - 1 + MaxWrap)

\* 32-byte strings offered as point fields: every point, and a non-point
PointFields == {pointToBytes(P) : P \in Points} \cup {LEBytes(0, FieldSize)}

BadLengths ==
    (0 .. MaxLenDelta) \cup ((ProofSize - MaxLenDelta) .. (ProofSize - 1))
        \cup ((ProofSize + 1) .. (ProofSize + MaxLenDelta))

NoOrigin == [kind |-> "none", sk |-> 0, b |-> 0, k |-> 0, k_b |-> 0]

NoRun == [result |-> "none", steps |-> <<>>,
          theta0 |-> FALSE, theta1 |-> FALSE, c |-> 0]

\* ------------------------------------------------ state
VARIABLES
    pc,         \* "idle", "called" (arguments ready), "returned"
    input,      \* verify's arguments
    gamma,
    proof,
    auxData,
    run,        \* outcome, executed steps and logged values of the last call
    origin,     \* who made the proof, and from which secrets
    tamper,     \* how the arguments were altered after the previous call
    prev        \* outcome and auxData of the call before the alteration

vars == <<pc, input, gamma, proof, auxData, run, origin, tamper, prev>>

NoPrev == [result |-> "none", auxData |-> Undefined]

Init ==
    /\ pc = "idle"
    /\ input = <<>>
    /\ gamma = <<>>
    /\ proof = <<>>
    /\ auxData = Undefined
    /\ run = NoRun
    /\ origin = NoOrigin
    /\ tamper = "none"
    /\ prev = NoPrev

\* an honest prover builds the proof and hands it over with its auxData
Prove ==
    /\ pc = "idle"
    /\ \E sk \in Scalars, b \in Scalars, k \in Scalars, k_b \in Scalars,
          m \in Messages, aux \in AuxArgs :
          LET p == prove(sk, b, k, k_b, m, aux)
          IN  /\ input' = m
              /\ gamma' = p.gamma
              /\ proof' = p.proof
              /\ auxData' = aux
              /\ origin' = [kind |-> "prover", sk |-> sk, b |-> b,
                            k |-> k, k_b |-> k_b]
    /\ pc' = "called"
    /\ run' = NoRun
    /\ tamper' = "none"
    /\ prev' = NoPrev

\* anyone submits 160 bytes of their choice
Forge ==
    /\ pc = "idle"
    /\ \E m \in Messages, aux \in AuxArgs, O \in PointFields,
          Y_bar \in PointFields, R \in PointFields, O_k \in PointFields,
          s \in WideScalars, s_b \in WideScalars :
          /\ input' = m
          /\ gamma' = O
          /\ proof' = serialize([Y_bar |-> Y_bar, R |-> R, O_k |-> O_k,
                                 s |-> LEBytes(s, FieldSize),
                                 s_b |-> LEBytes(s_b, FieldSize)])
          /\ auxData' = aux
    /\ origin' = [NoOrigin EXCEPT !.kind = "forger"]
    /\ pc' = "called"
    /\ run' = NoRun
    /\ tamper' = "none"
    /\ prev' = NoPrev

\* anyone submits a proof of the wrong length
ForgeBadLength ==
    /\ pc = "idle"
    /\ \E m \in Messages, aux \in AuxArgs, O \in PointFields,
          n \in BadLengths, fill \in {1, 3} :
          /\ input' = m
          /\ gamma' = O
          /\ proof' = [i \in 1 .. n |-> fill]
          /\ auxData' = aux
    /\ origin' = [NoOrigin EXCEPT !.kind = "forger"]
    /\ pc' = "called"
    /\ run' = NoRun
    /\ tamper' = "none"
    /\ prev' = NoPrev

\* PedersenVRFVerifier.verify(input, gamma, proof, auxData)
Verify ==
    /\ pc = "called"
    /\ run' = verify(input, gamma, proof, auxData)
    /\ pc' = "returned"
    /\ UNCHANGED <<input, gamma, proof, auxData, origin, tamper, prev>>

Resubmit(how) ==
    /\ pc' = "called"
    /\ run' = NoRun
    /\ tamper' = how
    /\ prev' = [result |-> run.result, auxData |-> auxData]
    /\ UNCHANGED <<input, gamma, origin>>

\* an accepted proof is submitted again with the fields s and s_b exchanged
SwapResponses ==
    /\ pc = "returned" /\ tamper = "none" /\ run.result = "true"
    /\ LET p == deserialize(proof)
       IN  proof' = serialize([p EXCEPT !.s = p.s_b, !.s_b = p.s])
    /\ UNCHANGED auxData
    /\ Resubmit("swap")

\* an accepted proof is submitted again with Order added to s or to s_b
WrapResponse ==
    /\ pc = "returned" /\ tamper = "none" /\ run.result = "true"
    /\ LET p == deserialize(proof)
       IN  \/ proof' = serialize([p EXCEPT !.s =
                 LEBytes(bytesToBigIntLittleEndian(p.s) + Order, FieldSize)])
           \/ proof' = serialize([p EXCEPT !.s_b =
                 LEBytes(bytesToBigIntLittleEndian(p.s_b) + Order, FieldSize)])
    /\ UNCHANGED auxData
    /\ Resubmit("wrap")

\* the same call again with auxData omitted instead of empty, or the reverse
ToggleAuxOmission ==
    /\ pc = "returned" /\ tamper = "none"
    /\ auxData \in {Undefined, Given(<<>>)}
    /\ auxData' = IF auxData = Undefined THEN Given(<<>>) ELSE Undefined
    /\ UNCHANGED proof
    /\ Resubmit("omit")

\* the prover's proof is submitted again with other auxiliary data
ChangeAux ==
    /\ pc = "returned" /\ tamper = "none" /\ origin.kind = "prover"
    /\ \E aux \in AuxArgs :
          /\ aux # auxData
          /\ auxData' = aux
    /\ UNCHANGED proof
    /\ Resubmit("aux")

Next ==
    \/ Prove
    \/ Forge
    \/ ForgeBadLength
    \/ Verify
    \/ SwapResponses
    \/ WrapResponse
    \/ ToggleAuxOmission
    \/ ChangeAux

Spec == Init /\ [][Next]_vars

\* ------------------------------------------------ properties
Returned == pc = "returned"

\* the call's transcript, read off the arguments (proof of 160 bytes)
ArgI == hashToCurve(input)

ArgProof == deserialize(proof)

ArgS == bytesToBigIntLittleEndian(ArgProof.s)

ArgSb == bytesToBigIntLittleEndian(ArgProof.s_b)

ArgPointsDecode ==
    /\ Decodable(gamma)
    /\ Decodable(ArgProof.Y_bar)
    /\ Decodable(ArgProof.R)
    /\ Decodable(ArgProof.O_k)

AuxBytes(aux) == IF aux.given THEN aux.bytes ELSE <<>>

\* the challenge over [Y_bar, I, Gamma, R, O_k] and the given auxiliary bytes
ArgChallenge(aux) ==
    generateChallenge(ArgProof.Y_bar, ArgI, gamma, ArgProof.R, ArgProof.O_k,
                      AuxBytes(aux))

IdentityBytes == pointToBytes(Identity)

\* C1: a call whose proof is not 160 bytes long ends in the thrown Error, and
\* no deserialization, hash-to-curve, point decoding, challenge generation or
\* curve arithmetic step ran before it
C1_WrongLengthThrowsFirst ==
    (Returned /\ Len(proof) # 160)
        => (run.result = "error" /\ run.steps = <<>>)

C1_Witness ==
    /\ Returned
    /\ Len(proof) = 161
    /\ run.result = "error"

\* C2: for a 160-byte proof whose points decode, verify returns true exactly
\* when O_k + c.Gamma = s.I and R + c.Y_bar = s.G + s_b.B, with c the
\* challenge over [Y_bar, I, Gamma, R, O_k] and auxData; otherwise false
C2_AcceptIffBothEquations ==
    (Returned /\ Len(proof) = 160 /\ Decodable(ArgI) /\ ArgPointsDecode)
        => LET i == bytesToPoint(ArgI)
               o == bytesToPoint(gamma)
               y == bytesToPoint(ArgProof.Y_bar)
               r == bytesToPoint(ArgProof.R)
               ok == bytesToPoint(ArgProof.O_k)
               c == ArgChallenge(auxData)
               eq0 == (ok + c * o) % Order = (ArgS * i) % Order
               eq1 == (r + c * y) % Order
                        = (ArgS * Generator + ArgSb * BlindingBase) % Order
           IN  /\ run.result \in {"true", "false"}
               /\ (run.result = "true") <=> (eq0 /\ eq1)

C2_Witness ==
    /\ Returned
    /\ origin.kind = "forger"
    /\ Len(proof) = 160
    /\ run.result = "true"
    /\ ArgS # ArgSb

\* C3: the proof built by the prover steps is accepted, for every secret key,
\* blinding scalar, pair of nonces, input and auxData
C3_Completeness ==
    (Returned /\ origin.kind = "prover" /\ tamper = "none")
        => run.result = "true"

C3_Witness ==
    /\ Returned
    /\ origin.kind = "prover"
    /\ tamper = "none"
    /\ origin.sk = 2
    /\ origin.b = 1
    /\ origin.k_b = 2
    /\ auxData = Given(<<1>>)
    /\ run.result = "true"

\* C4: a 160-byte proof with gamma, Y_bar, R or O_k not decodable as a point
\* is reported as a structural error, never as the result false
C4_UndecodablePointIsError ==
    (Returned /\ Len(proof) = 160 /\ ~ArgPointsDecode)
        => run.result = "error"

\* C5: no accepted proof has a response s or s_b that encodes an integer at or
\* above the curve order, and an accepted proof with the order added to s or
\* to s_b is not accepted
C5_UnreducedScalarRejected ==
    /\ (Returned /\ run.result = "true") => (ArgS < Order /\ ArgSb < Order)
    /\ (Returned /\ tamper = "wrap" /\ prev.result = "true")
           => run.result # "true"

\* C6: verify never returns true when Y_bar or gamma is the identity point
C6_IdentityCommitmentRejected ==
    (Returned /\ run.result = "true")
        => (gamma # IdentityBytes /\ ArgProof.Y_bar # IdentityBytes)

\* C7 as stated: an accepted proof with the fields s and s_b exchanged makes
\* verify return false
C7_SwapRejected ==
    (Returned /\ tamper = "swap" /\ prev.result = "true")
        => run.result = "false"

\* C7 as amended: an accepted proof whose s and s_b differ modulo the curve
\* order makes verify return false once the two fields are exchanged
C7_SwapOfDistinctResponsesRejected ==
    (Returned /\ tamper = "swap" /\ prev.result = "true"
              /\ ArgS % Order # ArgSb % Order)
        => run.result = "false"

C7_Witness ==
    /\ Returned
    /\ tamper = "swap"
    /\ prev.result = "true"
    /\ ArgS % Order # ArgSb % Order
    /\ run.result = "false"

\* C8: every call that returns false recomputed the challenge and evaluated
\* both theta0 and theta1 before the result was produced
C8_FalseOnlyAfterFullProtocol ==
    (Returned /\ run.result = "false")
        => \A step \in {"generateChallenge", "theta0", "theta1"} :
              \E n \in 1 .. Len(run.steps) : run.steps[n] = step

\* C9: verify with auxData omitted and verify with the empty auxData have the
\* same outcome: the same boolean, or both the structural error
C9_OmittedAuxIsEmpty ==
    (Returned /\ tamper = "omit") => run.result = prev.result

C9_Witness ==
    /\ Returned
    /\ tamper = "omit"
    /\ prev.auxData = Undefined
    /\ auxData = Given(<<>>)
    /\ prev.result = "true"
    /\ run.result = "true"

\* C10: a proof built by the prover steps with a nonzero secret key, a
\* non-identity input point and auxData A is rejected under every A' whose
\* recomputed challenge differs from the one computed for A
C10_BoundToAuxData ==
    (Returned /\ tamper = "aux" /\ origin.kind = "prover" /\ origin.sk # 0
              /\ ArgI # IdentityBytes
              /\ ArgChallenge(auxData) # ArgChallenge(prev.auxData))
        => run.result = "false"

C10_Witness ==
    /\ Returned
    /\ tamper = "aux"
    /\ origin.kind = "prover"
    /\ origin.sk # 0
    /\ ArgI # IdentityBytes
    /\ ArgChallenge(auxData) # ArgChallenge(prev.auxData)
    /\ prev.result = "true"
    /\ run.result = "false"

====
